---- MODULE Spec2Model ----
(***************************************************************************)
(* Model of the dialog store (src/bot/database.py, class Database) and of  *)
(* the completion adapter (src/bot/gemini_utils.py, class GeminiChat).     *)
(*                                                                         *)
(* The two MongoDB collections are sequences of documents in insertion     *)
(* order; a document is a record.  Every Database method is an operator    *)
(* from collections to a result record [err, ...] plus one action that     *)
(* applies it and stores what the caller observes in `ret`.                *)
(*                                                                         *)
(* Not modelled: username / first_name / last_name / first_seen /          *)
(* last_interaction / n_generated_images / n_transcribed_seconds of a user *)
(* document (written once by add_new_user, never read or written again in  *)
(* the sources), and the isinstance() argument checks (every id drawn here *)
(* is an integer).                                                         *)
(***************************************************************************)
EXTENDS Integers, Sequences, FiniteSets, TLC

\* ------------------------------------------------------------------ bounds
\* how many dialogs, accounted calls and turns per dialog
\* the clients of each specification drive the store through
UserMaxDialogs == 1
UserMaxUsageCalls == 1
UsageMaxCalls == 3
DialogMaxDialogs == 2
DialogMaxTurns == 1
AppendMaxDialogs == 2
AppendMaxTurns == 2
OwnerMaxDialogs == 2
OwnerMaxTurns == 1
SnapshotMaxDialogs == 2
SnapshotMaxTurns == 1
SnapshotMaxUsageCalls == 1
StoreMaxDialogs == 1
StoreMaxTurns == 1
StoreMaxUsageCalls == 1
UnknownMaxDialogs == 2
UnknownMaxTurns == 1
UnknownMaxUsageCalls == 1
\* dialogs listed and how far the clock of start_time advances
ListMaxDialogs == 3
ListMaxClock == 2
RaceMaxDialogs == 2
RaceMaxTurns == 2
\* chunks per stream and turns of history per invocation of the adapter
MaxChunks == 3
MaxHistory == 2

\* ------------------------------------------------------- values and inputs
None == "None"
NoError == "ok"

UserIds == {1, 2}
OneUser == {1}
ChatIds == {10, 20}
OneChatId == {10}
\* str(uuid.uuid4()): the n-th dialog created gets the n-th fresh id
DialogIdSeq == <<"d1", "d2", "d3", "d4">>
DialogIds == {DialogIdSeq[i] : i \in DOMAIN DialogIdSeq}
ChatModeKeys == {"assistant", "code_assistant"}
AvailableTextModels == <<"gemini-1.5-flash", "gemini-1.5-pro">>
Models == {AvailableTextModels[i] : i \in DOMAIN AvailableTextModels}
TokenCounts == {-1, 2}
OneTokenCount == {2}
Turns == {[user |-> "u1", bot |-> "b1"], [user |-> "u2", bot |-> "b2"]}
OneTurn == {[user |-> "u1", bot |-> "b1"]}
\* where a PyMongoError strikes in start_new_dialog
Faults == {"none", "insert", "update"}
NoFault == {"none"}

\* error values: the messages of the ValueError / PyMongoError the code raises
ErrUserMissing == "ValueError: User does not exist"
ErrDialogNotFound == "ValueError: Dialog not found for user"
ErrNoCurrentDialog == "ValueError: No current dialog found"
ErrStore == "PyMongoError"

VARIABLES user_collection, dialog_collection, clock, ret, usage, appended,
          chat, limits, pending

db_vars == <<user_collection, dialog_collection, clock, ret, usage, appended,
             limits, pending>>
vars == <<user_collection, dialog_collection, clock, ret, usage, appended,
          chat, limits, pending>>

\* ------------------------------------------------------ collection helpers
Min(S) == CHOOSE x \in S : \A y \in S : x <= y

\* indexes of the documents of collection c whose _id is id
IdxById(c, id) == {i \in DOMAIN c : c[i]._id = id}

\* user_collection.count_documents({"_id": user_id})
count_documents(uc, user_id) == Cardinality(IdxById(uc, user_id))

\* user_collection.find_one({"_id": user_id}); only used on existing users
find_one_user(uc, user_id) == uc[Min(IdxById(uc, user_id))]

\* collection.insert_one(doc): _id is unique in a MongoDB collection
insert_one(c, doc) ==
    IF IdxById(c, doc._id) # {}
    THEN [err |-> ErrStore, coll |-> c]
    ELSE [err |-> NoError, coll |-> Append(c, doc)]

\* collection.update_one(filter, {"$set": {key: value}}): first match only,
\* no match is not an error
update_one(c, match, key, value) ==
    IF match = {} THEN c
    ELSE [i \in DOMAIN c |->
            IF i = Min(match) THEN [c[i] EXCEPT ![key] = value] ELSE c[i]]

\* indexes matching {"_id": dialog_id, "user_id": user_id}
IdxDialog(dc, dialog_id, user_id) ==
    {i \in DOMAIN dc : dc[i]._id = dialog_id /\ dc[i].user_id = user_id}

\* dict with d[k] = v (Python: d[k] = v on a dict read from the store)
dict_set(d, k, v) == [x \in (DOMAIN d) \cup {k} |-> IF x = k THEN v ELSE d[x]]

\* Python truthiness of a dialog id (None and "" are falsy)
Falsy(dialog_id) == dialog_id \in {None, ""}

\* ------------------------------------------------------- Database methods
check_if_user_exists(uc, user_id) == count_documents(uc, user_id) > 0

get_user_attribute(uc, user_id, key) ==
    IF ~check_if_user_exists(uc, user_id)
    THEN [err |-> ErrUserMissing, value |-> None]
    ELSE [err |-> NoError, value |-> find_one_user(uc, user_id)[key]]

set_user_attribute(uc, user_id, key, value) ==
    IF ~check_if_user_exists(uc, user_id)
    THEN [err |-> ErrUserMissing, users |-> uc]
    ELSE [err |-> NoError,
          users |-> update_one(uc, IdxById(uc, user_id), key, value)]

\* variant: registration written as an upsert that replaces a stored record
add_new_user_upsert(uc, user_id, chat_id) ==
    LET user_dict == [_id |-> user_id, chat_id |-> chat_id,
                      current_dialog_id |-> None,
                      current_chat_mode |-> "assistant",
                      current_model |-> AvailableTextModels[1],
                      n_used_tokens |-> <<>>]
    IN  IF check_if_user_exists(uc, user_id)
        THEN [err |-> NoError,
              users |-> [i \in DOMAIN uc |->
                           IF uc[i]._id = user_id THEN user_dict ELSE uc[i]]]
        ELSE [err |-> NoError, users |-> Append(uc, user_dict)]

add_new_user(uc, user_id, chat_id) ==
    LET user_dict == [_id |-> user_id, chat_id |-> chat_id,
                      current_dialog_id |-> None,
                      current_chat_mode |-> "assistant",
                      current_model |-> AvailableTextModels[1],
                      n_used_tokens |-> <<>>]
        ins == insert_one(uc, user_dict)
    IN  IF ~check_if_user_exists(uc, user_id)
        THEN [err |-> ins.err, users |-> ins.coll]
        ELSE [err |-> NoError, users |-> uc]

\* variant: the dialog is inserted but current_dialog_id is not updated
start_new_dialog_no_pointer(uc, dc, user_id, dialog_id, now, fault) ==
    LET dialog_dict ==
            [_id |-> dialog_id, user_id |-> user_id,
             chat_mode |-> get_user_attribute(uc, user_id, "current_chat_mode").value,
             start_time |-> now,
             model |-> get_user_attribute(uc, user_id, "current_model").value,
             messages |-> <<>>]
        ins == insert_one(dc, dialog_dict)
    IN  IF ~check_if_user_exists(uc, user_id)
        THEN [err |-> ErrUserMissing, users |-> uc, dialogs |-> dc, dialog_id |-> None]
        ELSE IF fault = "insert" \/ ins.err # NoError
        THEN [err |-> ErrStore, users |-> uc, dialogs |-> dc, dialog_id |-> None]
        ELSE IF fault = "update"
        THEN [err |-> ErrStore, users |-> uc, dialogs |-> ins.coll, dialog_id |-> None]
        ELSE [err |-> NoError, users |-> uc,
              dialogs |-> ins.coll, dialog_id |-> dialog_id]

\* variant: without the existence check of line 103
start_new_dialog_unchecked(uc, dc, user_id, dialog_id, now, fault) ==
    LET dialog_dict ==
            [_id |-> dialog_id, user_id |-> user_id,
             chat_mode |-> get_user_attribute(uc, user_id, "current_chat_mode").value,
             start_time |-> now,
             model |-> get_user_attribute(uc, user_id, "current_model").value,
             messages |-> <<>>]
        ins == insert_one(dc, dialog_dict)
    IN  IF fault = "insert" \/ ins.err # NoError
        THEN [err |-> ErrStore, users |-> uc, dialogs |-> dc, dialog_id |-> None]
        ELSE IF fault = "update"
        THEN [err |-> ErrStore, users |-> uc, dialogs |-> ins.coll, dialog_id |-> None]
        ELSE [err |-> NoError,
              users |-> update_one(uc, IdxById(uc, user_id),
                                   "current_dialog_id", dialog_id),
              dialogs |-> ins.coll, dialog_id |-> dialog_id]

\* fault: where a PyMongoError strikes ("none", "insert", "update")
start_new_dialog(uc, dc, user_id, dialog_id, now, fault) ==
    LET dialog_dict ==
            [_id |-> dialog_id, user_id |-> user_id,
             chat_mode |-> get_user_attribute(uc, user_id, "current_chat_mode").value,
             start_time |-> now,
             model |-> get_user_attribute(uc, user_id, "current_model").value,
             messages |-> <<>>]
        ins == insert_one(dc, dialog_dict)
    IN  IF ~check_if_user_exists(uc, user_id)
        THEN [err |-> ErrUserMissing, users |-> uc, dialogs |-> dc, dialog_id |-> None]
        ELSE IF fault = "insert" \/ ins.err # NoError
        THEN [err |-> ErrStore, users |-> uc, dialogs |-> dc, dialog_id |-> None]
        ELSE IF fault = "update"
        THEN [err |-> ErrStore, users |-> uc, dialogs |-> ins.coll, dialog_id |-> None]
        ELSE [err |-> NoError,
              users |-> update_one(uc, IdxById(uc, user_id),
                                   "current_dialog_id", dialog_id),
              dialogs |-> ins.coll, dialog_id |-> dialog_id]

\* variant: the counts of the call replace the stored counters
update_n_used_tokens_overwrite(uc, user_id, model, n_input_tokens, n_output_tokens) ==
    LET got == get_user_attribute(uc, user_id, "n_used_tokens")
        n_used_tokens_dict ==
            dict_set(got.value, model,
                     [n_input_tokens |-> n_input_tokens,
                      n_output_tokens |-> n_output_tokens])
    IN  IF got.err # NoError
        THEN [err |-> got.err, users |-> uc]
        ELSE set_user_attribute(uc, user_id, "n_used_tokens", n_used_tokens_dict)

\* the isinstance() check of lines 163-164 passes for every integer, also a
\* negative one; there is no sign check
update_n_used_tokens(uc, user_id, model, n_input_tokens, n_output_tokens) ==
    LET got == get_user_attribute(uc, user_id, "n_used_tokens")
        n_used_tokens_dict ==
            IF model \in DOMAIN got.value
            THEN dict_set(got.value, model,
                     [n_input_tokens |->
                          got.value[model].n_input_tokens + n_input_tokens,
                      n_output_tokens |->
                          got.value[model].n_output_tokens + n_output_tokens])
            ELSE dict_set(got.value, model,
                     [n_input_tokens |-> n_input_tokens,
                      n_output_tokens |-> n_output_tokens])
    IN  IF got.err # NoError
        THEN [err |-> got.err, users |-> uc]
        ELSE set_user_attribute(uc, user_id, "n_used_tokens", n_used_tokens_dict)

\* variant: without the early return of lines 192-193
get_dialog_messages_strict(uc, dc, user_id, dialog_id) ==
    LET did == IF dialog_id = None
               THEN get_user_attribute(uc, user_id, "current_dialog_id").value
               ELSE dialog_id
        match == IdxDialog(dc, did, user_id)
    IN  IF ~check_if_user_exists(uc, user_id)
        THEN [err |-> ErrUserMissing, value |-> <<>>]
        ELSE IF match = {}
        THEN [err |-> ErrDialogNotFound, value |-> <<>>]
        ELSE [err |-> NoError, value |-> dc[Min(match)].messages]

get_dialog_messages(uc, dc, user_id, dialog_id) ==
    LET did == IF dialog_id = None
               THEN get_user_attribute(uc, user_id, "current_dialog_id").value
               ELSE dialog_id
        match == IdxDialog(dc, did, user_id)
    IN  IF ~check_if_user_exists(uc, user_id)
        THEN [err |-> ErrUserMissing, value |-> <<>>]
        ELSE IF Falsy(did)
        THEN [err |-> NoError, value |-> <<>>]
        ELSE IF match = {}
        THEN [err |-> ErrDialogNotFound, value |-> <<>>]
        ELSE [err |-> NoError, value |-> dc[Min(match)].messages]

\* variant: the write always goes to the current dialog
set_dialog_messages_current(uc, dc, user_id, dialog_messages, dialog_id) ==
    LET did == get_user_attribute(uc, user_id, "current_dialog_id").value
    IN  IF ~check_if_user_exists(uc, user_id)
        THEN [err |-> ErrUserMissing, dialogs |-> dc, resolved |-> None]
        ELSE IF Falsy(did)
        THEN [err |-> ErrNoCurrentDialog, dialogs |-> dc, resolved |-> None]
        ELSE [err |-> NoError,
              dialogs |-> update_one(dc, IdxDialog(dc, did, user_id),
                                     "messages", dialog_messages),
              resolved |-> IF dialog_id = None THEN did ELSE dialog_id]

\* variant: the write also refreshes the dialog's chat_mode and model from
\* the user's current preferences
set_dialog_messages_resnapshot(uc, dc, user_id, dialog_messages, dialog_id) ==
    LET did == IF dialog_id = None
               THEN get_user_attribute(uc, user_id, "current_dialog_id").value
               ELSE dialog_id
        match == IdxDialog(dc, did, user_id)
    IN  IF ~check_if_user_exists(uc, user_id)
        THEN [err |-> ErrUserMissing, dialogs |-> dc, resolved |-> None]
        ELSE IF Falsy(did)
        THEN [err |-> ErrNoCurrentDialog, dialogs |-> dc, resolved |-> None]
        ELSE [err |-> NoError,
              dialogs |->
                  update_one(
                      update_one(
                          update_one(dc, match, "messages", dialog_messages),
                          match, "chat_mode",
                          get_user_attribute(uc, user_id, "current_chat_mode").value),
                      match, "model",
                      get_user_attribute(uc, user_id, "current_model").value),
              resolved |-> did]

\* resolved: the dialog id the write was addressed to
set_dialog_messages(uc, dc, user_id, dialog_messages, dialog_id) ==
    LET did == IF dialog_id = None
               THEN get_user_attribute(uc, user_id, "current_dialog_id").value
               ELSE dialog_id
    IN  IF ~check_if_user_exists(uc, user_id)
        THEN [err |-> ErrUserMissing, dialogs |-> dc, resolved |-> None]
        ELSE IF Falsy(did)
        THEN [err |-> ErrNoCurrentDialog, dialogs |-> dc, resolved |-> None]
        ELSE [err |-> NoError,
              dialogs |-> update_one(dc, IdxDialog(dc, did, user_id),
                                     "messages", dialog_messages),
              resolved |-> did]

\* the projection {"_id": 1, "start_time": 1, "chat_mode": 1, "model": 1}
Projection(doc) ==
    [_id |-> doc._id, start_time |-> doc.start_time,
     chat_mode |-> doc.chat_mode, model |-> doc.model]

\* the documents of c at the indexes S, in insertion order
RECURSIVE NaturalOrder(_, _)
NaturalOrder(c, S) ==
    IF S = {} THEN <<>>
    ELSE <<c[Min(S)]>> \o NaturalOrder(c, S \ {Min(S)})

\* the documents of c at the indexes S, in the order of the index
\* (user_id ascending, start_time descending) of line 33
RECURSIVE IndexOrder(_, _)
IndexOrder(c, S) ==
    IF S = {} THEN <<>>
    ELSE LET i == Min({j \in S : \A k \in S :
                                    c[k].start_time <= c[j].start_time})
         IN  <<c[i]>> \o IndexOrder(c, S \ {i})

\* dialog_collection.find({"user_id": user_id}, projection) without sort():
\* the server returns the matches in the order of the plan it picks
find_dialogs(dc, user_id, plan) ==
    LET match == {i \in DOMAIN dc : dc[i].user_id = user_id}
        found == IF plan = "IXSCAN" THEN IndexOrder(dc, match)
                 ELSE NaturalOrder(dc, match)
    IN  [k \in DOMAIN found |-> Projection(found[k])]

\* plan: the query plan of the server ("COLLSCAN" or "IXSCAN")
get_user_dialogs(uc, dc, user_id, plan) ==
    IF ~check_if_user_exists(uc, user_id)
    THEN [err |-> ErrUserMissing, value |-> <<>>]
    ELSE [err |-> NoError, value |-> find_dialogs(dc, user_id, plan)]

\* ------------------------------------------------------------ the actions
\* the dialog_id arguments callers pass: those the specification names
\* (omitted, the empty string, an id that may not be stored) and the id of
\* every stored dialog
DialogIdArgs ==
    limits.dialog_ids
    \cup {dialog_collection[i]._id : i \in DOMAIN dialog_collection}

BoundedSeq(S, n) == UNION {[1..k -> S] : k \in 0..n}

\* no append_turn is between its read and its write-back
NoPending ==
    [phase |-> "none", user_id |-> 0, turn |-> None, history |-> <<>>,
     read_from |-> None, written_to |-> None]

\* what the caller of the last Database method observed
Ret(op, user_id, err) ==
    [op |-> op, user_id |-> user_id, err |-> err, dialog_id |-> None,
     messages |-> <<>>, key |-> None, value |-> None, model |-> None,
     n_input_tokens |-> 0, n_output_tokens |-> 0, dialogs |-> <<>>]

UsageCalls ==
    LET RECURSIVE Sum(_)
        Sum(S) == IF S = {} THEN 0
                  ELSE LET x == CHOOSE y \in S : TRUE
                       IN  usage[x].calls + Sum(S \ {x})
    IN  Sum(UserIds \X Models)

DbInit ==
    /\ user_collection = <<>>
    /\ dialog_collection = <<>>
    /\ clock = 0
    /\ ret = Ret("init", 0, NoError)
    /\ usage = [x \in UserIds \X Models |->
                    [n_input_tokens |-> 0, n_output_tokens |-> 0, calls |-> 0]]
    /\ appended = [d \in DialogIds |-> <<>>]
    /\ pending = NoPending

AddNewUser ==
    \E user_id \in UserIds, chat_id \in limits.chat_ids :
        LET r == add_new_user(user_collection, user_id, chat_id)
        IN  /\ user_id \in limits.user_ids
            /\ user_collection' = r.users
            /\ ret' = Ret("add_new_user", user_id, r.err)
            /\ UNCHANGED <<dialog_collection, clock, usage, appended, chat,
                           limits, pending>>

AttributeValues(key) ==
    CASE key = "current_chat_mode" -> ChatModeKeys
      [] key = "current_model" -> Models
      [] key = "current_dialog_id" -> DialogIds \cup {None}

SetUserAttributeKey(key) ==
    \E user_id \in limits.callers, value \in AttributeValues(key) :
        LET r == set_user_attribute(user_collection, user_id, key, value)
        IN  /\ user_collection' = r.users
            /\ ret' = [Ret("set_user_attribute", user_id, r.err) EXCEPT
                          !.key = key, !.value = value]
            /\ UNCHANGED <<dialog_collection, clock, usage, appended, chat,
                           limits, pending>>

SetUserAttribute ==
    \E key \in {"current_chat_mode", "current_model", "current_dialog_id"} :
        SetUserAttributeKey(key)

StartNewDialog ==
    \E user_id \in limits.callers, fault \in limits.faults,
       dialog_id \in {DialogIdSeq[i] : i \in {Len(dialog_collection) + 1}
                                             \cap DOMAIN DialogIdSeq},
       now \in {clock, IF clock < limits.clock THEN clock + 1 ELSE clock} :
        LET r == start_new_dialog(user_collection, dialog_collection,
                                  user_id, dialog_id, now, fault)
        IN  /\ Len(dialog_collection) < limits.dialogs
            /\ user_collection' = r.users
            /\ dialog_collection' = r.dialogs
            /\ clock' = IF r.err = ErrUserMissing THEN clock ELSE now
            /\ ret' = [Ret("start_new_dialog", user_id, r.err) EXCEPT
                          !.dialog_id = r.dialog_id]
            /\ UNCHANGED <<usage, appended, chat,
                           limits, pending>>

UpdateNUsedTokens ==
    \E user_id \in limits.callers, model \in Models,
       n_input_tokens \in limits.token_counts,
       n_output_tokens \in limits.token_counts :
        LET r == update_n_used_tokens(user_collection, user_id, model,
                                      n_input_tokens, n_output_tokens)
            k == <<user_id, model>>
        IN  /\ UsageCalls < limits.usage
            /\ user_collection' = r.users
            /\ usage' = IF r.err # NoError THEN usage
                        ELSE [usage EXCEPT
                                ![k].n_input_tokens = @ + n_input_tokens,
                                ![k].n_output_tokens = @ + n_output_tokens,
                                ![k].calls = @ + 1]
            /\ ret' = [Ret("update_n_used_tokens", user_id, r.err) EXCEPT
                          !.model = model,
                          !.n_input_tokens = n_input_tokens,
                          !.n_output_tokens = n_output_tokens]
            /\ UNCHANGED <<dialog_collection, clock, appended, chat,
                           limits, pending>>

GetDialogMessages ==
    \E user_id \in limits.callers, dialog_id \in DialogIdArgs :
        LET r == get_dialog_messages(user_collection, dialog_collection,
                                     user_id, dialog_id)
        IN  /\ ret' = [Ret("get_dialog_messages", user_id, r.err) EXCEPT
                          !.dialog_id = dialog_id, !.messages = r.value]
            /\ UNCHANGED <<user_collection, dialog_collection, clock, usage,
                           appended, chat, limits, pending>>

SetDialogMessages ==
    \E user_id \in limits.callers, dialog_id \in DialogIdArgs,
       dialog_messages \in BoundedSeq(limits.turn_values, limits.turns) :
        LET r == set_dialog_messages(user_collection, dialog_collection,
                                     user_id, dialog_messages, dialog_id)
        IN  /\ dialog_collection' = r.dialogs
            /\ ret' = [Ret("set_dialog_messages", user_id, r.err) EXCEPT
                          !.dialog_id = dialog_id]
            /\ UNCHANGED <<user_collection, clock, usage, appended, chat,
                           limits, pending>>

GetUserAttribute ==
    \E user_id \in limits.callers,
       key \in {"current_chat_mode", "current_model", "current_dialog_id"} :
        LET r == get_user_attribute(user_collection, user_id, key)
        IN  /\ ret' = [Ret("get_user_attribute", user_id, r.err) EXCEPT
                          !.key = key, !.value = r.value]
            /\ UNCHANGED <<user_collection, dialog_collection, clock, usage,
                           appended, chat, limits, pending>>

GetUserDialogs ==
    \E user_id \in limits.callers, plan \in {"COLLSCAN", "IXSCAN"} :
        LET r == get_user_dialogs(user_collection, dialog_collection,
                                  user_id, plan)
        IN  /\ ret' = [Ret("get_user_dialogs", user_id, r.err) EXCEPT
                          !.dialogs = r.value]
            /\ UNCHANGED <<user_collection, dialog_collection, clock, usage,
                           appended, chat, limits, pending>>

\* the caller's append of one turn: get_dialog_messages, append,
\* set_dialog_messages, with the same dialog_id argument
AppendTurn ==
    \E user_id \in limits.callers, dialog_id \in DialogIdArgs,
       turn \in limits.turn_values :
        LET g == get_dialog_messages(user_collection, dialog_collection,
                                     user_id, dialog_id)
            w == set_dialog_messages(user_collection, dialog_collection,
                                     user_id, Append(g.value, turn), dialog_id)
            err == IF g.err # NoError THEN g.err ELSE w.err
        IN  /\ Len(g.value) < limits.turns
            /\ dialog_collection' = IF g.err # NoError THEN dialog_collection
                                    ELSE w.dialogs
            /\ appended' = IF err # NoError THEN appended
                           ELSE [appended EXCEPT ![w.resolved] = Append(@, turn)]
            /\ ret' = [Ret("append_turn", user_id, err) EXCEPT
                          !.dialog_id = dialog_id,
                          !.messages = <<turn>>]
            /\ UNCHANGED <<user_collection, clock, usage, chat,
                           limits, pending>>

\* first half of the caller's append with dialog_id omitted:
\* get_dialog_messages(user_id); one append is in progress at a time
AppendRead ==
    \E user_id \in limits.callers, turn \in limits.turn_values :
        LET g == get_dialog_messages(user_collection, dialog_collection,
                                     user_id, None)
        IN  /\ pending.phase # "read"
            /\ Len(g.value) < limits.turns
            /\ pending' =
                 IF g.err # NoError THEN [NoPending EXCEPT !.phase = "failed"]
                 ELSE [phase |-> "read", user_id |-> user_id, turn |-> turn,
                       history |-> g.value,
                       read_from |->
                           get_user_attribute(user_collection, user_id,
                                              "current_dialog_id").value,
                       written_to |-> None]
            /\ ret' = [Ret("get_dialog_messages", user_id, g.err) EXCEPT
                          !.messages = g.value]
            /\ UNCHANGED <<user_collection, dialog_collection, clock, usage,
                           appended, chat, limits>>

\* second half: set_dialog_messages(user_id, history + [turn])
AppendWrite ==
    LET w == set_dialog_messages(user_collection, dialog_collection,
                                 pending.user_id,
                                 Append(pending.history, pending.turn), None)
    IN  /\ pending.phase = "read"
        /\ dialog_collection' = w.dialogs
        /\ appended' = IF w.err # NoError THEN appended
                       ELSE [appended EXCEPT
                               ![w.resolved] = Append(@, pending.turn)]
        /\ pending' = IF w.err # NoError
                      THEN [pending EXCEPT !.phase = "failed"]
                      ELSE [pending EXCEPT !.phase = "written",
                                           !.written_to = w.resolved]
        /\ ret' = [Ret("append_turn", pending.user_id, w.err) EXCEPT
                      !.messages = <<pending.turn>>]
        /\ UNCHANGED <<user_collection, clock, usage, chat, limits>>

\* ------------------------------------------------- text (str) operations
\* a str is a sequence of one-character strings
Max(S) == CHOOSE x \in S : \A y \in S : y <= x

NonSpace(s) == {i \in DOMAIN s : s[i] # " "}

\* variant: the characters are counted
WordCount_chars(s) == Len(s)

\* len(s.split()): the number of whitespace-delimited words
WordCount(s) ==
    Cardinality({i \in NonSpace(s) : i = 1 \/ s[i - 1] = " "})

\* s.strip()
strip(s) ==
    IF NonSpace(s) = {} THEN <<>>
    ELSE SubSeq(s, Min(NonSpace(s)), Max(NonSpace(s)))

\* " ".join([m["content"] for m in messages])
RECURSIVE JoinContents(_)
JoinContents(messages) ==
    IF messages = <<>> THEN <<>>
    ELSE IF Len(messages) = 1 THEN messages[1].content
    ELSE messages[1].content \o <<" ">> \o JoinContents(Tail(messages))

\* ------------------------------------------------------ adapter inputs
\* config.chat_modes: name -> prompt_start
chat_modes == [assistant |-> <<"p", " ", "p">>, code_assistant |-> <<"q">>]
ChatModeInputs == (DOMAIN chat_modes) \cup {"nonexistent_mode"}
ChatTurns == {[user |-> <<"a">>, bot |-> <<"b", " ", "b">>],
              [user |-> <<"c", " ", "c">>, bot |-> <<"d">>]}
MessageInputs == {<<"m">>, <<"m", " ", "m">>}
\* chunk.text: empty, a word, whitespace, a word with whitespace on a side
ChunkTexts == {<<>>, <<"x">>, <<" ">>, <<"x", " ">>, <<" ", "x">>}

ErrUnsupportedMode == "ValueError: Chat mode is not supported"
\* ValueError(f"Error in Gemini API: {str(e)}"): the kind, and str(e) apart
ErrGeminiBackend == "ValueError: Error in Gemini API"
ErrGeminiUnbound ==
    "local variable 'n_output_tokens' referenced before assignment"
\* str(e) of the exceptions the backend raises
BackendErrors == {"quota exceeded", "connection reset"}
Unbound == -1

\* ------------------------------------------------- GeminiChat methods
\* the for loop of lines 67-69
RECURSIVE HistoryEntries(_)
HistoryEntries(dialog_messages) ==
    IF dialog_messages = <<>> THEN <<>>
    ELSE <<[role |-> "user", content |-> dialog_messages[1].user],
           [role |-> "model", content |-> dialog_messages[1].bot]>>
         \o HistoryEntries(Tail(dialog_messages))

\* variant: the history is walked newest turn first
_generate_prompt_messages_reversed(message, dialog_messages, chat_mode) ==
    LET RECURSIVE Rev(_)
        Rev(q) == IF q = <<>> THEN <<>> ELSE Rev(Tail(q)) \o <<q[1]>>
    IN  <<[role |-> "system", content |-> chat_modes[chat_mode]]>>
        \o HistoryEntries(Rev(dialog_messages))
        \o <<[role |-> "user", content |-> message]>>

_generate_prompt_messages(message, dialog_messages, chat_mode) ==
    <<[role |-> "system", content |-> chat_modes[chat_mode]]>>
    \o HistoryEntries(dialog_messages)
    \o <<[role |-> "user", content |-> message]>>

\* s.rstrip()
rstrip(s) ==
    IF NonSpace(s) = {} THEN <<>> ELSE SubSeq(s, 1, Max(NonSpace(s)))

\* variant: only trailing whitespace is removed
_postprocess_answer_rstrip(answer) == rstrip(answer)

_postprocess_answer(answer) == strip(answer)

Event(status, answer, n_input_tokens, n_output_tokens) ==
    [status |-> status, answer |-> answer, n_input_tokens |-> n_input_tokens,
     n_output_tokens |-> n_output_tokens, cost |-> 0]

\* one invocation of send_message / send_message_stream; err and cause are
\* the error raised to the caller, backend_raised what the backend raised
ChatIdle ==
    [pc |-> "idle", variant |-> None, chat_mode |-> None, message |-> <<>>,
     dialog_messages |-> <<>>, messages |-> <<>>, answer |-> <<>>,
     n_input_tokens |-> 0, n_output_tokens |-> Unbound, events |-> <<>>,
     err |-> NoError, cause |-> None, backend_calls |-> 0, received |-> <<>>,
     eos |-> FALSE, backend_raised |-> None]

ChatInit == chat = ChatIdle

\* the state after the mode check, the prompt construction and the backend
\* call of lines 42-50 (22-28 for the one-shot variant)
Composed(variant, message, dialog_messages, chat_mode) ==
    LET messages == _generate_prompt_messages(message, dialog_messages, chat_mode)
    IN  [ChatIdle EXCEPT !.variant = variant, !.chat_mode = chat_mode,
                         !.message = message,
                         !.dialog_messages = dialog_messages,
                         !.messages = messages, !.backend_calls = 1]

Rejected(variant, message, dialog_messages, chat_mode) ==
    [ChatIdle EXCEPT !.pc = "failed", !.variant = variant,
                     !.chat_mode = chat_mode, !.message = message,
                     !.dialog_messages = dialog_messages,
                     !.err = ErrUnsupportedMode]

\* variant: the error is swallowed and the answer so far is delivered as the
\* finished event
except_Exception_finish(c, e) ==
    [c EXCEPT !.pc = "finished",
              !.events = Append(@, Event("finished", c.answer,
                                         c.n_input_tokens, 0))]

\* the handler of lines 60-61 (38-39 in the one-shot variant)
except_Exception(c, e) ==
    [c EXCEPT !.pc = "failed", !.err = ErrGeminiBackend, !.cause = e]

\* lines 42-50 (22-28 and 32 of the one-shot variant): the mode check, then,
\* inside the try, the prompt, the backend call and the input word count
\* variant: the mode is checked after the backend call
Composing_late_check(variant, message, dialog_messages, chat_mode, backend) ==
    IF chat_mode \notin DOMAIN chat_modes
    THEN [Rejected(variant, message, dialog_messages, chat_mode)
             EXCEPT !.backend_calls = 1]
    ELSE LET c == Composed(variant, message, dialog_messages, chat_mode)
         IN  IF backend # "ok"
             THEN [except_Exception(c, backend) EXCEPT
                      !.backend_raised = backend]
             ELSE [c EXCEPT !.pc = "streaming",
                     !.n_input_tokens = WordCount(JoinContents(c.messages))]

\* backend: "ok" (a response is returned) or the message of the exception
\* the backend raises
Composing(variant, message, dialog_messages, chat_mode, backend) ==
    IF chat_mode \notin DOMAIN chat_modes
    THEN Rejected(variant, message, dialog_messages, chat_mode)
    ELSE LET c == Composed(variant, message, dialog_messages, chat_mode)
         IN  IF backend # "ok"
             THEN [except_Exception(c, backend) EXCEPT
                      !.backend_raised = backend]
             ELSE [c EXCEPT !.pc = "streaming",
                     !.n_input_tokens = WordCount(JoinContents(c.messages))]

\* first resumption of the generator: up to the first chunk receive
SendMessageStreamStart ==
    \E message \in MessageInputs, chat_mode \in ChatModeInputs,
       dialog_messages \in BoundedSeq(ChatTurns, MaxHistory),
       backend \in {"ok"} \cup BackendErrors :
        /\ chat.pc = "idle"
        /\ chat' = Composing("stream", message, dialog_messages, chat_mode,
                             backend)
        /\ UNCHANGED db_vars

\* variant: each event carries the text of its chunk only
StreamChunk_delta ==
    \E text \in ChunkTexts :
        /\ chat.pc = "streaming"
        /\ Len(chat.received) < MaxChunks
        /\ chat' =
            IF text # <<>>
            THEN LET answer == chat.answer \o text
                     n_output_tokens == WordCount(answer)
                 IN  [chat EXCEPT !.answer = answer,
                        !.n_output_tokens = n_output_tokens,
                        !.received = Append(@, text),
                        !.events = Append(@, Event("not_finished", text,
                                     chat.n_input_tokens, n_output_tokens))]
            ELSE [chat EXCEPT !.received = Append(@, text)]
        /\ UNCHANGED db_vars

\* one iteration of the async for loop (lines 51-55)
StreamChunk ==
    \E text \in ChunkTexts :
        /\ chat.pc = "streaming"
        /\ Len(chat.received) < MaxChunks
        /\ chat' =
            IF text # <<>>
            THEN LET answer == chat.answer \o text
                     n_output_tokens == WordCount(answer)
                 IN  [chat EXCEPT !.answer = answer,
                        !.n_output_tokens = n_output_tokens,
                        !.received = Append(@, text),
                        !.events = Append(@, Event("not_finished", answer,
                                     chat.n_input_tokens, n_output_tokens))]
            ELSE [chat EXCEPT !.received = Append(@, text)]
        /\ UNCHANGED db_vars

\* the backend raises while the stream is read (line 51 -> 60-61)
StreamRaise ==
    \E e \in BackendErrors :
        /\ chat.pc = "streaming"
        /\ chat' = [except_Exception(chat, e) EXCEPT !.backend_raised = e]
        /\ UNCHANGED db_vars

\* end of stream (lines 57-58): n_output_tokens is a local that only line 54
\* assigns; reading it unassigned raises UnboundLocalError inside the try
StreamEnd ==
    /\ chat.pc = "streaming"
    /\ chat' =
        LET answer == _postprocess_answer(chat.answer)
        IN  IF chat.n_output_tokens = Unbound
            THEN except_Exception([chat EXCEPT !.answer = answer,
                                               !.eos = TRUE],
                                  ErrGeminiUnbound)
            ELSE [chat EXCEPT !.pc = "finished", !.answer = answer,
                    !.eos = TRUE,
                    !.events = Append(@, Event("finished", answer,
                                 chat.n_input_tokens, chat.n_output_tokens))]
    /\ UNCHANGED db_vars

\* the caller is done with the invocation (result consumed or error handled)
ChatDone ==
    /\ chat.pc \in {"finished", "failed", "returned"}
    /\ chat' = ChatIdle
    /\ UNCHANGED db_vars

\* send_message (lines 21-39): one blocking backend call returning text
SendMessage ==
    \E message \in MessageInputs, chat_mode \in ChatModeInputs,
       dialog_messages \in BoundedSeq(ChatTurns, MaxHistory),
       backend \in {"ok"} \cup BackendErrors, text \in ChunkTexts :
        /\ chat.pc = "idle"
        /\ chat' =
            LET c == Composing("oneshot", message, dialog_messages, chat_mode,
                               backend)
                n_output_tokens == WordCount(text)
                answer == _postprocess_answer(text)
            IN  IF c.pc = "failed" THEN c
                ELSE [c EXCEPT !.pc = "returned",
                        !.n_output_tokens = n_output_tokens,
                        !.answer = answer,
                        !.received = <<text>>,
                        !.events = <<Event("returned", answer,
                                           c.n_input_tokens, n_output_tokens)>>]
        /\ UNCHANGED db_vars

\* ------------------------------------------------------- specifications
\* user_ids: who registers; callers: who calls the other methods; the other
\* fields bound or choose the arguments and faults of the calls
NoLimits ==
    [user_ids |-> OneUser, dialogs |-> 0, usage |-> 0, turns |-> 0, clock |-> 0,
     chat_ids |-> OneChatId, callers |-> UserIds, token_counts |-> TokenCounts,
     turn_values |-> Turns, faults |-> Faults,
     dialog_ids |-> {None, "", DialogIdSeq[1]}]

\* the completion adapter alone
ChatNext ==
    \/ SendMessageStreamStart
    \/ StreamChunk
    \/ StreamRaise
    \/ StreamEnd
    \/ SendMessage
    \/ ChatDone

ChatInitial == DbInit /\ ChatInit /\ limits = NoLimits

SpecChat == ChatInitial /\ [][ChatNext]_vars

\* registration, preferences, new dialogs and accounting
UserNext ==
    \/ AddNewUser
    \/ SetUserAttributeKey("current_chat_mode")
    \/ SetUserAttributeKey("current_model")
    \/ StartNewDialog
    \/ UpdateNUsedTokens

UserInitial ==
    DbInit /\ ChatInit
    /\ limits = [NoLimits EXCEPT !.dialogs = UserMaxDialogs,
                                 !.usage = UserMaxUsageCalls,
                                 !.chat_ids = ChatIds]

SpecUser == UserInitial /\ [][UserNext]_vars

\* accounting
UsageNext ==
    \/ AddNewUser
    \/ UpdateNUsedTokens

UsageInitial ==
    DbInit /\ ChatInit
    /\ limits = [NoLimits EXCEPT !.user_ids = UserIds,
                                 !.usage = UsageMaxCalls]

SpecUsage == UsageInitial /\ [][UsageNext]_vars

\* dialogs read and replaced
DialogNext ==
    \/ AddNewUser
    \/ StartNewDialog
    \/ GetDialogMessages
    \/ SetDialogMessages

DialogInitial ==
    DbInit /\ ChatInit
    /\ limits = [NoLimits EXCEPT !.dialogs = DialogMaxDialogs,
                                 !.turns = DialogMaxTurns]

SpecDialog == DialogInitial /\ [][DialogNext]_vars

\* dialogs written only by appending turns
AppendNext ==
    \/ AddNewUser
    \/ StartNewDialog
    \/ GetDialogMessages
    \/ AppendTurn

AppendInitial ==
    DbInit /\ ChatInit
    /\ limits = [NoLimits EXCEPT !.dialogs = AppendMaxDialogs,
                                 !.turns = AppendMaxTurns,
                                 !.dialog_ids = {None, DialogIdSeq[1]}]

SpecAppend == AppendInitial /\ [][AppendNext]_vars

\* two users reading and replacing each other's and their own dialogs
OwnerNext ==
    \/ AddNewUser
    \/ StartNewDialog
    \/ GetDialogMessages
    \/ SetDialogMessages

OwnerInitial ==
    DbInit /\ ChatInit
    /\ limits = [NoLimits EXCEPT !.user_ids = UserIds,
                                 !.dialogs = OwnerMaxDialogs,
                                 !.turns = OwnerMaxTurns]

SpecOwner == OwnerInitial /\ [][OwnerNext]_vars

\* preferences changed, dialogs started and replaced, usage accounted
SnapshotNext ==
    \/ AddNewUser
    \/ SetUserAttributeKey("current_chat_mode")
    \/ SetUserAttributeKey("current_model")
    \/ StartNewDialog
    \/ SetDialogMessages
    \/ UpdateNUsedTokens

SnapshotInitial ==
    DbInit /\ ChatInit
    /\ limits = [NoLimits EXCEPT !.dialogs = SnapshotMaxDialogs,
                                 !.turns = SnapshotMaxTurns,
                                 !.usage = SnapshotMaxUsageCalls,
                                 !.callers = OneUser,
                                 !.token_counts = OneTokenCount,
                                 !.turn_values = OneTurn,
                                 !.faults = NoFault,
                                 !.dialog_ids = {None}]

SpecSnapshot == SnapshotInitial /\ [][SnapshotNext]_vars

\* every method of the store, set_user_attribute with every key
StoreNext ==
    \/ AddNewUser
    \/ GetUserAttribute
    \/ SetUserAttribute
    \/ StartNewDialog
    \/ UpdateNUsedTokens
    \/ GetDialogMessages
    \/ SetDialogMessages
    \/ GetUserDialogs

StoreInitial ==
    DbInit /\ ChatInit
    /\ limits = [NoLimits EXCEPT !.dialogs = StoreMaxDialogs,
                                 !.turns = StoreMaxTurns,
                                 !.usage = StoreMaxUsageCalls,
                                 !.token_counts = OneTokenCount,
                                 !.turn_values = OneTurn]

SpecStore == StoreInitial /\ [][StoreNext]_vars

\* the same methods, called by a registered and by an unknown user: no store
\* fault strikes and set_user_attribute sets the chat mode
UnknownNext ==
    \/ AddNewUser
    \/ GetUserAttribute
    \/ SetUserAttributeKey("current_chat_mode")
    \/ StartNewDialog
    \/ UpdateNUsedTokens
    \/ GetDialogMessages
    \/ SetDialogMessages
    \/ GetUserDialogs

UnknownInitial ==
    DbInit /\ ChatInit
    /\ limits = [NoLimits EXCEPT !.dialogs = UnknownMaxDialogs,
                                 !.turns = UnknownMaxTurns,
                                 !.usage = UnknownMaxUsageCalls,
                                 !.token_counts = OneTokenCount,
                                 !.turn_values = OneTurn,
                                 !.faults = NoFault]

SpecUnknown == UnknownInitial /\ [][UnknownNext]_vars

\* two users starting dialogs over time and listing them
ListNext ==
    \/ AddNewUser
    \/ StartNewDialog
    \/ GetUserDialogs

ListInitial ==
    DbInit /\ ChatInit
    /\ limits = [NoLimits EXCEPT !.user_ids = UserIds,
                                 !.dialogs = ListMaxDialogs,
                                 !.clock = ListMaxClock]

SpecList == ListInitial /\ [][ListNext]_vars

\* appends in two steps, new dialogs started in between
RaceNext ==
    \/ AddNewUser
    \/ StartNewDialog
    \/ AppendRead
    \/ AppendWrite

RaceInitial ==
    DbInit /\ ChatInit
    /\ limits = [NoLimits EXCEPT !.dialogs = RaceMaxDialogs,
                                 !.turns = RaceMaxTurns]

SpecRace == RaceInitial /\ [][RaceNext]_vars

\* ================================================================ claims
Exists(user_id) == check_if_user_exists(user_collection, user_id)
UserDoc(user_id) == find_one_user(user_collection, user_id)
DialogDocs == {dialog_collection[i] : i \in DOMAIN dialog_collection}

\* C1: add_new_user is idempotent: called for an id that is already stored,
\* whatever set_user_attribute / start_new_dialog / update_n_used_tokens did
\* to the record in between, it raises nothing, leaves every field of every
\* stored user record as it was and leaves exactly one record with that id.
C1_AddNewUserIdempotent ==
    [][(/\ ret'.op = "add_new_user"
        /\ check_if_user_exists(user_collection, ret'.user_id))
       => /\ user_collection' = user_collection
          /\ count_documents(user_collection', ret'.user_id) = 1
          /\ ret'.err = NoError]_vars

\* a repeated add_new_user met a record whose four mutable fields had all
\* been changed since registration
C1_Witness ==
    /\ ret.op = "add_new_user"
    /\ Exists(ret.user_id)
    /\ UserDoc(ret.user_id).current_chat_mode # "assistant"
    /\ UserDoc(ret.user_id).current_model # AvailableTextModels[1]
    /\ UserDoc(ret.user_id).current_dialog_id # None
    /\ UserDoc(ret.user_id).n_used_tokens # <<>>

\* C2: right after start_new_dialog(u) returned id d, u's current_dialog_id
\* is d and get_dialog_messages(u) without dialog_id returns the empty list,
\* whatever u's earlier dialogs hold.
C2_NewDialogCurrentAndEmpty ==
    (ret.op = "start_new_dialog" /\ ret.err = NoError)
    => /\ ret.dialog_id \in DialogIds
       /\ get_user_attribute(user_collection, ret.user_id,
                             "current_dialog_id")
              = [err |-> NoError, value |-> ret.dialog_id]
       /\ get_dialog_messages(user_collection, dialog_collection,
                              ret.user_id, None)
              = [err |-> NoError, value |-> <<>>]

\* start_new_dialog returned while an earlier dialog of the same user holds turns
C2_Witness ==
    /\ ret.op = "start_new_dialog"
    /\ ret.err = NoError
    /\ \E d \in DialogDocs : /\ d.user_id = ret.user_id
                             /\ d._id # ret.dialog_id
                             /\ d.messages # <<>>

\* C3: when dialogs are written only by append_turn, one call at a time, the
\* owner reading a dialog gets exactly the turns appended to it, in the order
\* they were appended (so nothing is lost, duplicated or reordered, and every
\* earlier history is a prefix of every later one).
C3_AppendOrderPreserved ==
    \A d \in DialogDocs :
        get_dialog_messages(user_collection, dialog_collection,
                            d.user_id, d._id)
            = [err |-> NoError, value |-> appended[d._id]]

\* two different turns were appended to a dialog that is no longer current,
\* after a turn went to another dialog
C3_Witness ==
    /\ ret.op = "append_turn"
    /\ ret.err = NoError
    /\ \E d, e \in DialogDocs :
          /\ d._id # e._id
          /\ Len(d.messages) = 2
          /\ d.messages[1] # d.messages[2]
          /\ UserDoc(d.user_id).current_dialog_id = e._id
          /\ e.messages # <<>>

\* C4: update_n_used_tokens is additive: for every stored user and every
\* model, the stored counters are absent before the first accounted call for
\* that model and afterwards equal the sums of the input and of the output
\* counts of all accounted calls for it (so the first call stores its own
\* counts and calls for another model leave them alone).
C4_UsageAdditive ==
    \A user_id \in UserIds, model \in Models :
        Exists(user_id) =>
            LET n == UserDoc(user_id).n_used_tokens
                u == usage[<<user_id, model>>]
            IN  IF u.calls = 0 THEN model \notin DOMAIN n
                ELSE /\ model \in DOMAIN n
                     /\ n[model] = [n_input_tokens |-> u.n_input_tokens,
                                    n_output_tokens |-> u.n_output_tokens]

\* a user with two accounted calls for one model and one for the other
C4_Witness ==
    /\ ret.op = "update_n_used_tokens"
    /\ ret.err = NoError
    /\ \E user_id \in limits.callers, m1, m2 \in Models :
          /\ m1 # m2
          /\ usage[<<user_id, m1>>].calls = 2
          /\ usage[<<user_id, m2>>].calls = 1
          /\ UserDoc(user_id).n_used_tokens[m1].n_input_tokens
                # UserDoc(user_id).n_used_tokens[m1].n_output_tokens

\* C5: update_n_used_tokens called for a stored user with a negative input
\* or output count raises a validation error (and so stores nothing).
C5_NegativeCountsRejected ==
    (/\ ret.op = "update_n_used_tokens"
     /\ Exists(ret.user_id)
     /\ (ret.n_input_tokens < 0 \/ ret.n_output_tokens < 0))
    => ret.err # NoError

\* C9: get_dialog_messages without dialog_id, for a stored user whose
\* current_dialog_id is None, returns the empty list and raises nothing.
C9_NoCurrentDialogEmptyHistory ==
    (/\ ret.op = "get_dialog_messages"
     /\ ret.dialog_id = None
     /\ Exists(ret.user_id)
     /\ UserDoc(ret.user_id).current_dialog_id = None)
    => (ret.err = NoError /\ ret.messages = <<>>)

\* such a read by a registered user for whom no start_new_dialog succeeded,
\* one failed attempt having left a dialog document of theirs behind
C9_Witness ==
    /\ ret.op = "get_dialog_messages"
    /\ ret.dialog_id = None
    /\ Exists(ret.user_id)
    /\ UserDoc(ret.user_id).current_dialog_id = None
    /\ ret.err = NoError
    /\ \E d \in DialogDocs : d.user_id = ret.user_id

\* ----------------------------------------------------- adapter claims
RECURSIVE Concat(_)
Concat(texts) == IF texts = <<>> THEN <<>> ELSE texts[1] \o Concat(Tail(texts))

IsPrefix(p, q) == Len(p) <= Len(q) /\ SubSeq(q, 1, Len(p)) = p

\* the events before the last one
Front(q) == SubSeq(q, 1, Len(q) - 1)

Answers(events) == [k \in DOMAIN events |-> events[k].answer]

\* what each event's answer adds to the answer of the event before it
Increments(events) ==
    [k \in DOMAIN events |->
        IF k = 1 THEN events[1].answer
        ELSE SubSeq(events[k].answer, Len(events[k - 1].answer) + 1,
                    Len(events[k].answer))]

\* msgs is [system:P, user:u1, bot_role:b1, ..., user:un, bot_role:bn, user:m]
PromptIs(msgs, P, history, m, bot_role) ==
    /\ Len(msgs) = 2 * Len(history) + 2
    /\ msgs[1] = [role |-> "system", content |-> P]
    /\ \A k \in DOMAIN history :
          /\ msgs[2 * k] = [role |-> "user", content |-> history[k].user]
          /\ msgs[2 * k + 1] = [role |-> bot_role, content |-> history[k].bot]
    /\ msgs[Len(msgs)] = [role |-> "user", content |-> m]

\* C6 as stated: the prompt built for a supported mode is the 2n+2 entries
\* system:P, user:u1, assistant:b1, ..., user:m, bot texts tagged "assistant".
C6_PromptAssistantRole ==
    chat.backend_calls > 0
    => PromptIs(chat.messages, chat_modes[chat.chat_mode],
                chat.dialog_messages, chat.message, "assistant")

\* C6 amended: the prompt built for a supported mode is the 2n+2 entries
\* system:P, user:u1, model:b1, ..., user:un, model:bn, user:m, prior turns
\* in their original order, each bot text tagged with the role "model".
C6_PromptModelRole ==
    chat.backend_calls > 0
    => PromptIs(chat.messages, chat_modes[chat.chat_mode],
                chat.dialog_messages, chat.message, "model")

\* a prompt built from a history of two different turns
C6_Witness ==
    /\ chat.backend_calls > 0
    /\ Len(chat.dialog_messages) = 2
    /\ chat.dialog_messages[1] # chat.dialog_messages[2]
    /\ Len(chat.messages) = 6

\* C7 as stated: after a successful stream, the answer texts of the
\* not_finished events, concatenated in emission order and trimmed, are the
\* finished event's answer text.
C7_ConcatEventAnswers ==
    chat.pc = "finished"
    => strip(Concat(Answers(Front(chat.events))))
         = chat.events[Len(chat.events)].answer

\* C7 amended: each not_finished event carries the whole answer so far; after
\* a successful stream every not_finished answer extends the one before it,
\* and the texts they add (the backend's chunk texts), concatenated in
\* emission order and trimmed, are the finished event's answer text.
C7_ConcatIncrements ==
    chat.pc = "finished"
    => LET nf == Front(chat.events)
           fin == chat.events[Len(chat.events)]
       IN  /\ fin.status = "finished"
           /\ \A k \in DOMAIN nf : nf[k].status = "not_finished"
           /\ \A k \in DOMAIN nf : k > 1 => IsPrefix(nf[k - 1].answer, nf[k].answer)
           /\ Concat(Increments(nf)) = Concat(chat.received)
           /\ strip(Concat(Increments(nf))) = fin.answer

\* a finished stream of two not_finished events whose untrimmed text starts
\* and ends with whitespace
C7_Witness ==
    /\ chat.pc = "finished"
    /\ Len(chat.events) = 3
    /\ LET raw == chat.events[2].answer
       IN  raw[1] = " " /\ raw[Len(raw)] = " " /\ NonSpace(raw) # {}

\* C8: an invocation of send_message or send_message_stream with a chat_mode
\* outside the mode table fails with the unsupported-mode error, having made
\* no backend call, built no prompt and emitted no event.
C8_UnsupportedModeRejectedFirst ==
    (chat.pc # "idle" /\ chat.chat_mode \notin DOMAIN chat_modes)
    => /\ chat.pc = "failed"
       /\ chat.err = ErrUnsupportedMode
       /\ chat.backend_calls = 0
       /\ chat.messages = <<>>
       /\ chat.events = <<>>

\* a streaming invocation rejected for its mode
C8_Witness ==
    /\ chat.pc = "failed"
    /\ chat.variant = "stream"
    /\ chat.chat_mode = "nonexistent_mode"
    /\ chat.err = ErrUnsupportedMode

\* C10: when the backend of a send_message_stream invocation with a supported
\* mode has delivered its chunks (none, or empty ones, included) and
\* signalled end-of-stream without error, exactly one finished event has been
\* emitted and it is the last event.
C10_ExactlyOneFinishedLast ==
    (chat.variant = "stream" /\ chat.eos)
    => /\ chat.events # <<>>
       /\ chat.events[Len(chat.events)].status = "finished"
       /\ \A k \in DOMAIN Front(chat.events) :
             chat.events[k].status = "not_finished"

\* ------------------------------------------------- ownership claims
\* the ValueErrors that report a dialog as not found
DialogNotFoundErrors == {ErrDialogNotFound, ErrNoCurrentDialog}

\* C11: set_dialog_messages called by a stored user with an explicit
\* dialog_id that is not the id of a dialog of that user (no such dialog, or
\* a dialog of another user) raises a not-found error and leaves the messages
\* of every dialog unchanged.
C11_ForeignWriteRejected ==
    [][(/\ ret'.op = "set_dialog_messages"
        /\ check_if_user_exists(user_collection, ret'.user_id)
        /\ ret'.dialog_id # None
        /\ IdxDialog(dialog_collection, ret'.dialog_id, ret'.user_id) = {})
       => /\ ret'.err \in DialogNotFoundErrors
          /\ dialog_collection' = dialog_collection]_vars

\* C12: get_dialog_messages called by a stored user with an explicit
\* dialog_id that is not the id of a dialog of that user (no such dialog, or
\* a dialog of another user) raises the dialog-not-found error and returns
\* no messages.
C12_ForeignReadRejected ==
    (/\ ret.op = "get_dialog_messages"
     /\ Exists(ret.user_id)
     /\ ret.dialog_id # None
     /\ IdxDialog(dialog_collection, ret.dialog_id, ret.user_id) = {})
    => (ret.err = ErrDialogNotFound /\ ret.messages = <<>>)

\* C13: get_user_dialogs(u) for a stored user returns exactly the dialogs
\* whose user_id is u, each once and as its metadata (_id, start_time,
\* chat_mode, model) without the messages, most recently started first.
C13_ListOwnedNewestFirst ==
    (ret.op = "get_user_dialogs" /\ ret.err = NoError)
    => LET listed == ret.dialogs
           owned == {d \in DialogDocs : d.user_id = ret.user_id}
       IN  /\ {listed[k] : k \in DOMAIN listed}
                 = {Projection(d) : d \in owned}
           /\ Len(listed) = Cardinality(owned)
           /\ \A k \in DOMAIN listed :
                 DOMAIN listed[k] = {"_id", "start_time", "chat_mode", "model"}
           /\ \A k \in DOMAIN listed :
                 k > 1 => listed[k - 1].start_time >= listed[k].start_time

\* ------------------------------------------------- store-wide claims
\* the fields of a dialog that are fixed at its creation
Snapshot(doc) ==
    [_id |-> doc._id, user_id |-> doc.user_id,
     chat_mode |-> doc.chat_mode, model |-> doc.model]

\* C14: a dialog is created with the caller as user_id and with the caller's
\* current_chat_mode and current_model of that moment as chat_mode and model,
\* and no step (set_user_attribute on current_chat_mode or current_model,
\* set_dialog_messages, a later start_new_dialog, update_n_used_tokens)
\* changes _id, user_id, chat_mode or model of a dialog already stored.
C14_DialogSnapshotFixed ==
    [][/\ \A i \in DOMAIN dialog_collection :
             /\ i \in DOMAIN dialog_collection'
             /\ Snapshot(dialog_collection'[i]) = Snapshot(dialog_collection[i])
       /\ \A i \in (DOMAIN dialog_collection') \ (DOMAIN dialog_collection) :
             /\ ret'.op = "start_new_dialog"
             /\ Exists(ret'.user_id)
             /\ dialog_collection'[i].user_id = ret'.user_id
             /\ dialog_collection'[i].chat_mode
                    = UserDoc(ret'.user_id).current_chat_mode
             /\ dialog_collection'[i].model
                    = UserDoc(ret'.user_id).current_model]_vars

\* a dialog holding turns keeps a chat_mode and a model that are no longer
\* its owner's preferences, the owner having since started another dialog
\* and been accounted usage
C14_Witness ==
    \E d, e \in DialogDocs :
        /\ d._id # e._id
        /\ d.user_id = e.user_id
        /\ d.messages # <<>>
        /\ d.chat_mode # UserDoc(d.user_id).current_chat_mode
        /\ d.model # UserDoc(d.user_id).current_model
        /\ e.chat_mode # d.chat_mode
        /\ UserDoc(d.user_id).n_used_tokens # <<>>

\* C15: in every reachable state, every stored user's current_dialog_id is
\* None or the _id of a stored dialog whose user_id is that user, and every
\* stored dialog's user_id is the _id of a stored user.
C15_PointersValid ==
    /\ \A i \in DOMAIN user_collection :
          \/ user_collection[i].current_dialog_id = None
          \/ \E d \in DialogDocs :
                /\ d._id = user_collection[i].current_dialog_id
                /\ d.user_id = user_collection[i]._id
    /\ \A d \in DialogDocs : Exists(d.user_id)

\* C17: every method other than add_new_user, called with a user id that is
\* not stored, raises the user-does-not-exist error and leaves the user
\* collection and the dialog collection as they were.
C17_UnknownUserRejected ==
    [][(/\ ret'.op \notin {"init", "add_new_user"}
        /\ ~check_if_user_exists(user_collection, ret'.user_id))
       => /\ ret'.err = ErrUserMissing
          /\ user_collection' = user_collection
          /\ dialog_collection' = dialog_collection]_vars

\* start_new_dialog was called for an unknown user while the store holds a
\* user with a current dialog
C17_Witness ==
    /\ ret.op = "start_new_dialog"
    /\ ~Exists(ret.user_id)
    /\ ret.err = ErrUserMissing
    /\ \E i \in DOMAIN user_collection :
          \E d \in DialogDocs : d._id = user_collection[i].current_dialog_id

\* C20: with dialogs written only by append_turn with dialog_id omitted, one
\* append at a time, and start_new_dialog free to run between the read and
\* the write-back of an append: a write-back goes to the dialog whose history
\* the append read, and every dialog holds exactly the turns appended to it
\* (none that were read from another dialog, none from before its creation).
C20_WriteBackToDialogRead ==
    /\ (pending.phase = "written" /\ pending.read_from # None)
          => pending.written_to = pending.read_from
    /\ \A d \in DialogDocs : d.messages = appended[d._id]

\* ------------------------------------------- adapter claims, continued
\* C16: when the backend raises (at the call, or while the stream is read),
\* the invocation has failed with the one backend-error kind carrying the
\* message of what the backend raised, no finished event and no returned
\* result exists for the invocation, the backend was called once, and the
\* failed invocation does nothing more.
C16_BackendErrorUniform ==
    [][/\ chat'.backend_raised # None
          => /\ chat'.pc = "failed"
             /\ chat'.err = ErrGeminiBackend
             /\ chat'.cause = chat'.backend_raised
             /\ \A k \in DOMAIN chat'.events :
                   chat'.events[k].status = "not_finished"
             /\ chat'.backend_calls = 1
       /\ chat.pc = "failed" => chat' = ChatIdle]_vars

\* the backend raised while the stream was read, after two events
C16_Witness ==
    /\ chat.variant = "stream"
    /\ chat.backend_raised \in BackendErrors
    /\ Len(chat.events) = 2
    /\ chat.pc = "failed"

\* the words of s, counted by reading s from left to right
RECURSIVE WordsFrom(_, _)
WordsFrom(s, in_word) ==
    IF s = <<>> THEN 0
    ELSE IF s[1] = " " THEN WordsFrom(Tail(s), FALSE)
    ELSE (IF in_word THEN 0 ELSE 1) + WordsFrom(Tail(s), TRUE)

CountWords(s) == WordsFrom(s, FALSE)

RECURSIVE SumWords(_)
SumWords(messages) ==
    IF messages = <<>> THEN 0
    ELSE CountWords(messages[1].content) + SumWords(Tail(messages))

\* C18: in every event of a send_message_stream invocation the input count
\* is the number of whitespace-delimited words summed over the entries of
\* the built prompt (so it is the same in every event), the output count is
\* the number of whitespace-delimited words of the event's answer text, the
\* cost is 0, and the output count is not less than in the event before.
C18_TokenAccounting ==
    chat.variant = "stream"
    => \A k \in DOMAIN chat.events :
          /\ chat.events[k].n_input_tokens = SumWords(chat.messages)
          /\ chat.events[k].n_output_tokens = CountWords(chat.events[k].answer)
          /\ chat.events[k].cost = 0
          /\ k > 1 => chat.events[k - 1].n_output_tokens
                          <= chat.events[k].n_output_tokens

\* a finished stream over a prompt with history whose output count grew
\* between two events and whose finished text was trimmed
C18_Witness ==
    /\ chat.variant = "stream"
    /\ chat.pc = "finished"
    /\ chat.dialog_messages # <<>>
    /\ Len(chat.events) = 3
    /\ chat.events[1].n_output_tokens < chat.events[2].n_output_tokens
    /\ chat.events[3].answer # chat.events[2].answer
    /\ chat.events[3].n_input_tokens > Len(chat.messages)

\* the non-empty texts of the chunks received so far, in receipt order
NonEmptyChunks == SelectSeq(chat.received, LAMBDA text : text # <<>>)

NotFinished == SelectSeq(chat.events, LAMBDA e : e.status = "not_finished")

\* C19: at every moment of a send_message_stream invocation there are as
\* many not_finished events as non-empty chunks were received (an empty
\* chunk gives no event), the k-th of them carries the untrimmed
\* concatenation of the first k non-empty chunks in receipt order and so
\* strictly extends the one before it, they precede any finished event, and
\* a finished event carries the trimmed text of the last not_finished event.
C19_ChunksForwardedInOrder ==
    chat.variant = "stream"
    => /\ Len(NotFinished) = Len(NonEmptyChunks)
       /\ \A k \in DOMAIN NotFinished :
             /\ chat.events[k] = NotFinished[k]
             /\ NotFinished[k].answer = Concat(SubSeq(NonEmptyChunks, 1, k))
             /\ k > 1 => /\ IsPrefix(NotFinished[k - 1].answer,
                                      NotFinished[k].answer)
                         /\ Len(NotFinished[k - 1].answer)
                               < Len(NotFinished[k].answer)
       /\ chat.pc = "finished"
             => /\ NotFinished # <<>>
                /\ chat.events[Len(chat.events)].answer
                      = strip(NotFinished[Len(NotFinished)].answer)

\* a finished stream in which an empty chunk arrived between two non-empty
\* ones that differ
C19_Witness ==
    /\ chat.variant = "stream"
    /\ chat.pc = "finished"
    /\ Len(chat.received) = 3
    /\ chat.received[1] # <<>>
    /\ chat.received[2] = <<>>
    /\ chat.received[3] \notin {<<>>, chat.received[1]}
    /\ Len(chat.events) = 3

====
